---- MODULE Spec2Model ----
(***************************************************************************)
(* Model of generate_vocab_guide.py: the extractor (clean_response_text,   *)
(* parse_response, the deduplication loop of main) and the renderer        *)
(* (generate_html, the output write of main).                              *)
(*                                                                         *)
(* Text is a sequence of characters.  A few fixed phrases the regular      *)
(* expressions look for are single characters of the model: "Mnemonic:",   *)
(* "Definition:", "Sure", "Here is " and "Let's continue".  A block is     *)
(* consumed as a stream: a "Group <n>" marker (on a line of its own) or    *)
(* one raw line at a time.                                                 *)
(***************************************************************************)
EXTENDS Integers, Sequences, FiniteSets, TLC

(* ---------------- bounds of the model ---------------- *)
MaxBlocks == 2       \* responses in responses.json
MaxSections == 2     \* "Group <n>" sections over the whole run
MaxLines == 2        \* non-empty lines over the whole run
MaxEscLen == 5       \* length of the texts the renderer escapes

(* ---------------- characters ---------------- *)
None == <<"None">>   \* Python's None; no text of the model equals it
MN == "Mnemonic:"
DF == "Definition:"
SURE == "Sure"
HERE == "Here is "
LETS == "Let's continue"
SURROGATE == "\\ud800"  \* a lone surrogate, which json.load accepts and utf-8 cannot encode

Lower == {"a", "b", "c", "d"}
Upper == {"A", "B", "C", "D"}
Letters == Lower \cup Upper \cup {SURE}

IsLetter(c) == c \in Letters
Spaces == {" "}
IsSpace(c) == c \in Spaces

ToUpper(c) == CASE c = "a" -> "A" [] c = "b" -> "B" [] c = "c" -> "C" [] c = "d" -> "D" [] OTHER -> c
ToLower(c) == CASE c = "A" -> "a" [] c = "B" -> "b" [] c = "C" -> "c" [] c = "D" -> "d" [] OTHER -> c

(* ---------------- str helpers ---------------- *)
Truthy(x) == x # None /\ x # <<>>
OrEmpty(x) == IF Truthy(x) THEN x ELSE <<>>

\* number of leading characters of s that are in the set cs
Run(s, cs) ==
    CHOOSE n \in 0..Len(s) :
        /\ \A i \in 1..n : s[i] \in cs
        /\ (n < Len(s) => s[n + 1] \notin cs)

Drop(s, n) == SubSeq(s, n + 1, Len(s))

LStrip(s) == Drop(s, Run(s, Spaces))

RStrip(s) ==
    LET n == CHOOSE k \in 0..Len(s) :
                 /\ \A i \in (k + 1)..Len(s) : IsSpace(s[i])
                 /\ (k > 0 => ~IsSpace(s[k]))
    IN SubSeq(s, 1, n)

Strip(s) == RStrip(LStrip(s))

\* str.rstrip('.')
RStripDot(s) ==
    LET n == CHOOSE k \in 0..Len(s) :
                 /\ \A i \in (k + 1)..Len(s) : s[i] = "."
                 /\ (k > 0 => s[k] # ".")
    IN SubSeq(s, 1, n)

\* index of the first character of s in the set cs at or after position from, 0 if none
IndexOf(s, cs, from) ==
    IF \E i \in from..Len(s) : s[i] \in cs
    THEN CHOOSE i \in from..Len(s) : s[i] \in cs /\ \A j \in from..(i - 1) : s[j] \notin cs
    ELSE 0

(* ---------------- clean_response_text, one line at a time ---------------- *)
\* ^Sure\.?\s*  (one of the six fixed openers)
CleanOpener(s) ==
    IF Len(s) > 0 /\ s[1] = SURE
    THEN LET r == Tail(s)
             r2 == IF Len(r) > 0 /\ r[1] = "." THEN Tail(r) ELSE r
         IN LStrip(r2)
    ELSE s

\* ^Here (?:is|are) .*?:\s*
CleanHere(s) ==
    IF Len(s) > 0 /\ s[1] = HERE /\ IndexOf(s, {":", MN, DF}, 2) # 0
    THEN LStrip(Drop(s, IndexOf(s, {":", MN, DF}, 2)))
    ELSE s

\* ^Let's continue.*?\.\s*
CleanLets(s) ==
    IF Len(s) > 0 /\ s[1] = LETS /\ IndexOf(s, {"."}, 2) # 0
    THEN LStrip(Drop(s, IndexOf(s, {"."}, 2)))
    ELSE s

clean_response_text(s) == Strip(CleanLets(CleanHere(CleanOpener(s))))

(* ---------------- the line patterns of parse_response ---------------- *)
\* ^([a-zA-Z]+(?:\s+[a-zA-Z]+)?) : the length of the word, given the lengths
\* of the first run of letters, of the spaces after it and of the letters after those
WordEnd(n1, k1, n2) == IF n1 > 0 /\ k1 > 0 /\ n2 > 0 THEN n1 + k1 + n2 ELSE n1

WordLen(line) ==
    WordEnd(Run(line, Letters),
            Run(Drop(line, Run(line, Letters)), Spaces),
            Run(LStrip(Drop(line, Run(line, Letters))), Letters))

\* (word)\s*- : the word and what follows the hyphen, given the length of the word
WordPrefixAt(line, wordEnd, h) ==
    IF wordEnd > 0 /\ h <= Len(line) /\ line[h] = "-"
    THEN [ok |-> TRUE, word |-> SubSeq(line, 1, wordEnd), rest |-> Drop(line, h)]
    ELSE [ok |-> FALSE, word |-> <<>>, rest |-> <<>>]

WordPrefixOf(line, wordEnd) ==
    WordPrefixAt(line, wordEnd, wordEnd + Run(Drop(line, wordEnd), Spaces) + 1)

WordPrefix(line) == WordPrefixOf(line, WordLen(line))

\* -\s*Mnemonic:\s*(.+)$ , given the word and the text r after the hyphen and its spaces
MnemonicMatchOf(p, r) ==
    IF p.ok /\ Len(r) > 1 /\ r[1] = MN /\ Len(LStrip(Tail(r))) > 0
    THEN [ok |-> TRUE, word |-> p.word, text |-> LStrip(Tail(r))]
    ELSE [ok |-> FALSE, word |-> <<>>, text |-> <<>>]

WordMnemonicOf(p) == MnemonicMatchOf(p, LStrip(p.rest))

\* ^(word)\s*-\s*Mnemonic:\s*(.+)$
word_mnemonic_match(line) == WordMnemonicOf(WordPrefix(line))

\* -\s*(?!Mnemonic)(.+)$ : the k spaces after the hyphen are given back one by
\* one until the lookahead passes
DefMatchOf(p, k, r) ==
    IF p.ok /\ Len(r) > 0 /\ (r[1] = MN => k > 0)
    THEN [ok |-> TRUE, word |-> p.word,
          text |-> IF r[1] = MN THEN Drop(p.rest, k - 1) ELSE r]
    ELSE [ok |-> FALSE, word |-> <<>>, text |-> <<>>]

WordDefOf(p) == DefMatchOf(p, Run(p.rest, Spaces), LStrip(p.rest))

\* ^(word)\s*-\s*(?!Mnemonic)(.+)$
word_def_match(line) == WordDefOf(WordPrefix(line))

IsStandaloneMnemonic(line) == Len(line) > 0 /\ line[1] = MN
IsStandaloneDefinition(line) == Len(line) > 0 /\ line[1] = DF

\* re.sub(r'^mnemonic:\s*', '', line).strip().rstrip('.')
StandaloneText(line) == RStripDot(Strip(LStrip(Tail(line))))

\* re.search(r'Definition:\s*(.+?)\.?$', m): position of the match, 0 if none
DefMatchAt(m, i) == IF i # 0 /\ i < Len(m) THEN i ELSE 0

def_match(m) == DefMatchAt(m, IndexOf(m, {DF}, 1))

\* group(1) of def_match: lazy, so one final period is left to \.?
LazyGroup(g) == IF Len(g) >= 2 /\ g[Len(g)] = "." THEN SubSeq(g, 1, Len(g) - 1) ELSE g

DefGroup(m, i) == LazyGroup(LStrip(Drop(m, i)))

\* the mnemonic and the definition of the stripped text m, given the position of def_match
FieldsAt(m, i) ==
    IF i # 0
    THEN [mnemonic |-> RStripDot(Strip(SubSeq(m, 1, i - 1))),
          definition |-> RStripDot(Strip(DefGroup(m, i)))]
    ELSE [mnemonic |-> RStripDot(m), definition |-> None]

FieldsOf(m) == FieldsAt(m, def_match(m))

\* the mnemonic and the definition a "<word> - Mnemonic: <rest>" line gives
MnemonicLineFields(text) == FieldsOf(Strip(text))

\* the definition a "<word> - <text>" line gives
DefLineText(text) == RStripDot(Strip(text))

(* ---------------- the input of the model ---------------- *)
\* the raw lines a group section may hold
RawLines == {
    <<"a", " ", "-", " ", MN, " ", "c">>,
    <<"a", " ", "-", " ", MN, " ", "c", ".", " ", DF, " ", "d", ".">>,
    <<MN, " ", "d", ".">>,
    <<HERE, "a", ":", " ", DF, " ", "c">>,
    <<SURE, ".", " ", "b", " ", "-", " ", "d", ".">>,
    <<"b", " ", "-", " ", ".">>,
    <<"c", " ", "-", " ", SURROGATE>>,
    <<LETS, " ", "a", ".", " ", "c", " ", "d">> }

\* the numbers a "Group <n>" marker may carry: 0 lies in no episode
GroupNums == {0, 1}

(* ---------------- state ---------------- *)
VARIABLES
    pc,                  \* position of main
    blocks,              \* responses parsed so far
    all_groups,          \* main: the corpus
    seen_groups,         \* main: numbers already recorded
    groups,              \* parse_response: groups of the block being parsed
    group_num,           \* parse_response: number of the section being parsed
    entries,             \* parse_response: entries of the section being parsed
    current_word,
    current_mnemonic,
    current_definition,
    html,                \* the rendered document
    output,              \* the output file
    secLines,            \* history: cleaned non-empty lines of the section, in order
    origins,             \* history: for each entry of entries, the index in secLines of its starting line
    current_origin,      \* history: index in secLines of the starting line of the entry in progress
    firstOcc,            \* history: per number, the entries of the first section carrying it
    firstKept,           \* history: per number, the entries of the first section carrying it that kept an entry
    dupSeen,             \* history: a later section repeated a kept number with other entries
    rejected,            \* history: groups the deduplication loop did not record
    nLines,              \* lines consumed so far
    nSections            \* sections begun so far

vars == <<pc, blocks, all_groups, seen_groups, groups, group_num, entries,
          current_word, current_mnemonic, current_definition, html, output,
          secLines, origins, current_origin, firstOcc, firstKept, dupSeen, rejected,
          nLines, nSections>>

parseVars == <<groups, group_num, entries, current_word, current_mnemonic,
               current_definition, secLines, origins, current_origin>>
histVars == <<firstOcc, firstKept, dupSeen, rejected>>

Untouched == [state |-> "untouched", content |-> <<>>]

(* ---------------- parse_response: the entry in progress ---------------- *)
\* current_word and (current_definition or current_mnemonic)
ShouldFlush(w, m, d) == Truthy(w) /\ (Truthy(d) \/ Truthy(m))

\* the guard of the flush when a "<word> - <text>" line meets an entry in progress
ShouldFlushOnWordDef(w, m, d) == TRUE

\* fault: the last entry of a group is forgotten
ShouldFlushAtEnd_Never(w, m, d) == FALSE

\* the guard of the flush after the last line of the group
ShouldFlushAtEnd(w, m, d) == Truthy(w) /\ (Truthy(d) \/ Truthy(m))

Entry(w, m, d) == [word |-> w, mnemonic |-> OrEmpty(m), definition |-> OrEmpty(d)]

\* fault: the entry in progress survives from the section before
FreshCurrent_Stale ==
    [word |-> current_word, mnemonic |-> current_mnemonic, definition |-> current_definition]

\* the entry in progress at the start of a group section
FreshCurrent == [word |-> None, mnemonic |-> None, definition |-> None]

\* the entry in progress a standalone "Mnemonic:" line leaves
OnStandaloneMnemonic(line) ==
    [word |-> current_word, mnemonic |-> StandaloneText(line), definition |-> current_definition]

\* the entry in progress a standalone "Definition:" line leaves
OnStandaloneDefinition(line) ==
    [word |-> current_word, mnemonic |-> current_mnemonic, definition |-> StandaloneText(line)]

\* the entry in progress a "<word> - Mnemonic: <rest>" line starts
StartWith(word, f) == [word |-> word, mnemonic |-> f.mnemonic, definition |-> f.definition]

OnWordMnemonic(wm) == StartWith(wm.word, MnemonicLineFields(wm.text))

\* the entry in progress a "<word> - <text>" line starts
OnWordDef(wd) ==
    [word |-> wd.word, mnemonic |-> None, definition |-> DefLineText(wd.text)]

(* ---------------- main: deduplication ---------------- *)
\* fault: a later group of a number replaces the recorded one (last write wins)
Record_LastWins(acc, group) ==
    IF group.number \notin acc.seen_groups
    THEN [all_groups |-> Append(acc.all_groups, group),
          seen_groups |-> acc.seen_groups \cup {group.number}]
    ELSE [all_groups |-> [i \in 1..Len(acc.all_groups) |->
                             IF acc.all_groups[i].number = group.number THEN group
                             ELSE acc.all_groups[i]],
          seen_groups |-> acc.seen_groups]

\* fault: the number is not looked up in seen_groups
Record_NoCheck(acc, group) ==
    [all_groups |-> Append(acc.all_groups, group),
     seen_groups |-> acc.seen_groups \cup {group.number}]

\* the body of the loop over the groups of one response
Record(acc, group) ==
    IF group.number \notin acc.seen_groups
    THEN [all_groups |-> Append(acc.all_groups, group),
          seen_groups |-> acc.seen_groups \cup {group.number}]
    ELSE acc

RECURSIVE DedupeLoop(_, _)
DedupeLoop(acc, gs) ==
    IF gs = <<>> THEN acc ELSE DedupeLoop(Record(acc, Head(gs)), Tail(gs))

(* ---------------- generate_html ---------------- *)
\* list.sort(key=number): stable
RECURSIVE InsertSorted(_, _)
InsertSorted(sorted, g) ==
    IF sorted = <<>> THEN <<g>>
    ELSE IF sorted[Len(sorted)].number <= g.number THEN Append(sorted, g)
    ELSE Append(InsertSorted(SubSeq(sorted, 1, Len(sorted) - 1), g), sorted[Len(sorted)])

RECURSIVE SortByNumber(_)
SortByNumber(gs) ==
    IF gs = <<>> THEN <<>>
    ELSE InsertSorted(SortByNumber(SubSeq(gs, 1, Len(gs) - 1)), gs[Len(gs)])

RECURSIVE TotalWords(_)
TotalWords(gs) == IF gs = <<>> THEN 0 ELSE Len(Head(gs).entries) + TotalWords(Tail(gs))

\* the seven fixed episodes: name, and range(lo, hi)
Episodes == <<
    [name |-> 1, lo |-> 1, hi |-> 5],
    [name |-> 2, lo |-> 5, hi |-> 10],
    [name |-> 3, lo |-> 10, hi |-> 15],
    [name |-> 4, lo |-> 15, hi |-> 20],
    [name |-> 5, lo |-> 20, hi |-> 25],
    [name |-> 6, lo |-> 25, hi |-> 30],
    [name |-> 7, lo |-> 30, hi |-> 35] >>

\* gnum in group_lookup
InLookup(gs, gnum) == \E i \in 1..Len(gs) : gs[i].number = gnum

\* group_lookup[gnum]: a dict comprehension keeps the last group of a number
Lookup(gs, gnum) ==
    gs[CHOOSE i \in 1..Len(gs) :
           gs[i].number = gnum /\ \A j \in (i + 1)..Len(gs) : gs[j].number # gnum]

\* fault: every number of the range is linked, in the corpus or not
RECURSIVE TocLinks_All(_, _, _)
TocLinks_All(gs, lo, hi) ==
    IF lo >= hi THEN <<>> ELSE <<(<<"toc_link", lo>>)>> \o TocLinks_All(gs, lo + 1, hi)

\* the links of one episode: for gnum in range(lo, hi): if gnum in group_lookup
RECURSIVE TocLinks(_, _, _)
TocLinks(gs, lo, hi) ==
    IF lo >= hi THEN <<>>
    ELSE (IF InLookup(gs, lo) THEN <<(<<"toc_link", lo>>)>> ELSE <<>>) \o TocLinks(gs, lo + 1, hi)

\* fault: the last number of the range is left out of the body
RECURSIVE EpisodeGroups_DropLast(_, _, _)
EpisodeGroups_DropLast(gs, lo, hi) ==
    IF lo >= hi - 1 THEN <<>>
    ELSE (IF InLookup(gs, lo) THEN <<Lookup(gs, lo)>> ELSE <<>>)
         \o EpisodeGroups_DropLast(gs, lo + 1, hi)

\* [group_lookup[gnum] for gnum in range(lo, hi) if gnum in group_lookup]
RECURSIVE EpisodeGroups(_, _, _)
EpisodeGroups(gs, lo, hi) ==
    IF lo >= hi THEN <<>>
    ELSE (IF InLookup(gs, lo) THEN <<Lookup(gs, lo)>> ELSE <<>>) \o EpisodeGroups(gs, lo + 1, hi)

\* str.replace(old, new)
RECURSIVE Replace(_, _, _)
Replace(s, old, new) ==
    IF s = <<>> THEN <<>>
    ELSE (IF Head(s) = old THEN new ELSE <<Head(s)>>) \o Replace(Tail(s), old, new)

AMP == <<"&", "a", "m", "p", ";">>
LT == <<"&", "l", "t", ";">>
GT == <<"&", "g", "t", ";">>

\* fault: the ampersand is replaced last, so the entities are escaped again
EscapeHtml_AmpLast(text) == Replace(Replace(Replace(text, "<", LT), ">", GT), "&", AMP)

\* .replace('&', '&amp;').replace('<', '&lt;').replace('>', '&gt;')
EscapeHtml(text) == Replace(Replace(Replace(text, "&", AMP), "<", LT), ">", GT)

\* str.title(): a letter after a letter is lowered, any other letter is raised
Title(word) ==
    [i \in 1..Len(word) |->
        IF i > 1 /\ IsLetter(word[i - 1]) THEN ToLower(word[i]) ELSE ToUpper(word[i])]

\* one table row
Row(entry) ==
    <<"tr", Title(entry.word), EscapeHtml(OrEmpty(entry.mnemonic)),
            EscapeHtml(OrEmpty(entry.definition))>>

RECURSIVE Rows(_)
Rows(es) == IF es = <<>> THEN <<>> ELSE <<Row(Head(es))>> \o Rows(Tail(es))

\* the table of one group
GroupTable(group) ==
    <<(<<"group", group.number>>)>> \o Rows(group.entries) \o <<(<<"group_end", group.number>>)>>

RECURSIVE GroupTables(_)
GroupTables(gs) == IF gs = <<>> THEN <<>> ELSE GroupTable(Head(gs)) \o GroupTables(Tail(gs))

\* the table-of-contents block of one episode
TocBlock(gs, ep) ==
    <<(<<"toc_episode", ep.name>>)>> \o TocLinks(gs, ep.lo, ep.hi)
    \o <<(<<"toc_episode_end", ep.name>>)>>

\* the body section of one episode
Section(gs, ep) ==
    LET episode_groups == EpisodeGroups(gs, ep.lo, ep.hi)
    IN IF episode_groups = <<>> THEN <<>>
       ELSE <<(<<"section", ep.name>>)>> \o GroupTables(episode_groups)
            \o <<(<<"section_end", ep.name>>)>>

RECURSIVE Toc(_, _)
Toc(gs, eps) == IF eps = <<>> THEN <<>> ELSE TocBlock(gs, Head(eps)) \o Toc(gs, Tail(eps))

RECURSIVE Body(_, _)
Body(gs, eps) == IF eps = <<>> THEN <<>> ELSE Section(gs, Head(eps)) \o Body(gs, Tail(eps))

\* the document, for the corpus already sorted
generate_html(gs) ==
    <<(<<"header", TotalWords(gs), Len(gs)>>)>>
    \o Toc(gs, Episodes) \o Body(gs, Episodes)
    \o <<(<<"footer">>)>>

\* whether f.write(html) can encode the document as utf-8
Encodable(doc) ==
    \A i \in 1..Len(doc) :
        doc[i][1] = "tr" =>
            \A k \in 3..4 : \A j \in 1..Len(doc[i][k]) : doc[i][k][j] # SURROGATE

(* ---------------- parse_response: one line ---------------- *)
\* entries (and the starting lines they come from) after a flush under the guard
Flushed(guard) ==
    IF guard
    THEN [entries |-> Append(entries, Entry(current_word, current_mnemonic, current_definition)),
          origins |-> Append(origins, current_origin)]
    ELSE [entries |-> entries, origins |-> origins]

\* the group appended after the last line of a section
KeepGroup(es) == es # <<>>

\* the entry in progress when a line leaves it alone
KeepCurrent ==
    [word |-> current_word, mnemonic |-> current_mnemonic, definition |-> current_definition]

\* the branches of the loop over lines, given both matches of the line
ParseMatched(line, wm, wd, guard, here) ==
    IF wm.ok
    THEN [out |-> Flushed(guard), cur |-> OnWordMnemonic(wm), origin |-> here]
    ELSE IF IsStandaloneMnemonic(line)
    THEN [out |-> Flushed(FALSE), cur |-> OnStandaloneMnemonic(line), origin |-> current_origin]
    ELSE IF IsStandaloneDefinition(line)
    THEN [out |-> Flushed(FALSE), cur |-> OnStandaloneDefinition(line), origin |-> current_origin]
    ELSE IF wd.ok /\ current_word = None
    THEN [out |-> Flushed(guard), cur |-> OnWordDef(wd), origin |-> here]
    ELSE IF wd.ok /\ current_word # None
    THEN [out |-> Flushed(ShouldFlushOnWordDef(current_word, current_mnemonic, current_definition)),
          cur |-> OnWordDef(wd), origin |-> here]
    ELSE [out |-> Flushed(FALSE), cur |-> KeepCurrent, origin |-> current_origin]

\* the effect of one non-empty stripped line: the body of the loop over lines
ParseLine(line) ==
    ParseMatched(line, word_mnemonic_match(line), word_def_match(line),
                 ShouldFlush(current_word, current_mnemonic, current_definition),
                 Len(secLines) + 1)

\* the assignments of one line, given what ParseLine returns for it
LineEffect(line, r) ==
    IF line = <<>>
    THEN UNCHANGED <<entries, origins, current_word, current_mnemonic,
                     current_definition, current_origin, secLines>>
    ELSE /\ secLines' = Append(secLines, line)
         /\ entries' = r.out.entries
         /\ origins' = r.out.origins
         /\ current_word' = r.cur.word
         /\ current_mnemonic' = r.cur.mnemonic
         /\ current_definition' = r.cur.definition
         /\ current_origin' = r.origin

LineOf(line) == LineEffect(line, IF line = <<>> THEN KeepCurrent ELSE ParseLine(line))

(* ---------------- the program ---------------- *)
Init ==
    /\ pc = "start"
    /\ blocks = 0
    /\ all_groups = <<>>
    /\ seen_groups = {}
    /\ groups = <<>>
    /\ group_num = 0
    /\ entries = <<>>
    /\ current_word = None
    /\ current_mnemonic = None
    /\ current_definition = None
    /\ html = <<>>
    /\ output = Untouched
    /\ secLines = <<>>
    /\ origins = <<>>
    /\ current_origin = 0
    /\ firstOcc = [n \in {} |-> <<>>]
    /\ firstKept = [n \in {} |-> <<>>]
    /\ dupSeen = FALSE
    /\ rejected = 0
    /\ nLines = 0
    /\ nSections = 0

\* main: open(responses_path) and json.load succeed
ReadInput ==
    /\ pc = "start"
    /\ pc' = "main_loop"
    /\ all_groups' = <<>>
    /\ seen_groups' = {}
    /\ UNCHANGED <<blocks, parseVars, html, output, histVars, nLines, nSections>>

\* main: the input file is missing or is not JSON; the exception ends the run
ReadInputError ==
    /\ pc = "start"
    /\ pc' = "aborted"
    /\ UNCHANGED <<blocks, all_groups, seen_groups, parseVars, html, output, histVars,
                   nLines, nSections>>

\* main calls parse_response on the next response: clean, split, groups = []
NextResponse ==
    /\ pc = "main_loop"
    /\ blocks < MaxBlocks
    /\ blocks' = blocks + 1
    /\ groups' = <<>>
    /\ pc' = "split"
    /\ UNCHANGED <<all_groups, seen_groups, group_num, entries, current_word,
                   current_mnemonic, current_definition, secLines, origins, current_origin,
                   html, output, histVars, nLines, nSections>>

\* parse_response: the next "Group <n>" section begins
BeginGroup(n) ==
    /\ pc = "split"
    /\ nSections < MaxSections
    /\ nSections' = nSections + 1
    /\ group_num' = n
    /\ entries' = <<>>
    /\ current_word' = FreshCurrent.word
    /\ current_mnemonic' = FreshCurrent.mnemonic
    /\ current_definition' = FreshCurrent.definition
    /\ secLines' = <<>>
    /\ origins' = <<>>
    /\ current_origin' = 0
    /\ pc' = "lines"
    /\ UNCHANGED <<blocks, all_groups, seen_groups, groups, html, output, histVars, nLines>>

\* parse_response: one line of the section
Line(raw) ==
    /\ pc = "lines"
    /\ nLines < MaxLines
    /\ nLines' = nLines + 1
    /\ LineOf(clean_response_text(raw))
    /\ UNCHANGED <<pc, blocks, all_groups, seen_groups, groups, group_num, html, output,
                   histVars, nSections>>

\* the assignments after the last line, given the entries after the last flush
EndGroupEffect(out) ==
    /\ entries' = out.entries
    /\ origins' = out.origins
    /\ groups' = IF KeepGroup(out.entries)
                 THEN Append(groups, [number |-> group_num, entries |-> out.entries])
                 ELSE groups
    /\ firstOcc' = IF group_num \in DOMAIN firstOcc THEN firstOcc
                   ELSE [n \in DOMAIN firstOcc \cup {group_num} |->
                            IF n = group_num THEN out.entries ELSE firstOcc[n]]
    /\ firstKept' = IF group_num \in DOMAIN firstKept \/ out.entries = <<>> THEN firstKept
                    ELSE [n \in DOMAIN firstKept \cup {group_num} |->
                             IF n = group_num THEN out.entries ELSE firstKept[n]]
    /\ dupSeen' = (dupSeen \/ (/\ group_num \in DOMAIN firstKept
                               /\ out.entries # <<>>
                               /\ out.entries # firstKept[group_num]))

\* parse_response: after the last line of the section
EndGroup ==
    /\ pc = "lines"
    /\ EndGroupEffect(Flushed(ShouldFlushAtEnd(current_word, current_mnemonic, current_definition)))
    /\ pc' = "split"
    /\ UNCHANGED <<blocks, all_groups, seen_groups, group_num, current_word, current_mnemonic,
                   current_definition, current_origin, secLines, html, output, rejected,
                   nLines, nSections>>

\* the assignments of the loop over the groups, given its result
RecordEffect(acc) ==
    /\ all_groups' = acc.all_groups
    /\ seen_groups' = acc.seen_groups
    /\ rejected' = rejected + Len(groups) - (Len(acc.all_groups) - Len(all_groups))

\* parse_response returns (its locals are gone); main records the groups not seen before
EndResponse ==
    /\ pc = "split"
    /\ RecordEffect(DedupeLoop([all_groups |-> all_groups, seen_groups |-> seen_groups], groups))
    /\ groups' = <<>>
    /\ group_num' = 0
    /\ entries' = <<>>
    /\ current_word' = None
    /\ current_mnemonic' = None
    /\ current_definition' = None
    /\ secLines' = <<>>
    /\ origins' = <<>>
    /\ current_origin' = 0
    /\ pc' = "main_loop"
    /\ UNCHANGED <<blocks, html, output, firstOcc, firstKept, dupSeen, nLines, nSections>>

\* main: html = generate_html(all_groups), which sorts the corpus in place
GenerateHtml ==
    /\ pc = "main_loop"
    /\ all_groups' = SortByNumber(all_groups)
    /\ html' = generate_html(all_groups')
    /\ pc' = "rendered"
    /\ UNCHANGED <<blocks, seen_groups, parseVars, output, histVars, nLines, nSections>>

\* main: open(output_path, 'w') truncates the file
OpenOutput ==
    /\ pc = "rendered"
    /\ output' = [state |-> "truncated", content |-> <<>>]
    /\ pc' = "opened"
    /\ UNCHANGED <<blocks, all_groups, seen_groups, parseVars, html, histVars, nLines,
                   nSections>>

\* main: f.write(html) encodes the whole document, then writes it
WriteHtml ==
    /\ pc = "opened"
    /\ Encodable(html)
    /\ output' = [state |-> "written", content |-> html]
    /\ pc' = "done"
    /\ UNCHANGED <<blocks, all_groups, seen_groups, parseVars, html, histVars, nLines,
                   nSections>>

\* main: f.write(html) raises UnicodeEncodeError; the exception ends the run
WriteHtmlError ==
    /\ pc = "opened"
    /\ ~Encodable(html)
    /\ pc' = "aborted"
    /\ UNCHANGED <<blocks, all_groups, seen_groups, parseVars, html, output, histVars,
                   nLines, nSections>>

Next ==
    \/ ReadInput
    \/ ReadInputError
    \/ NextResponse
    \/ \E n \in GroupNums : BeginGroup(n)
    \/ \E raw \in RawLines : Line(raw)
    \/ EndGroup
    \/ EndResponse
    \/ GenerateHtml
    \/ OpenOutput
    \/ WriteHtml
    \/ WriteHtmlError

Spec == Init /\ [][Next]_vars

(* ---------------- reading the history of a section ---------------- *)
\* an entry-starting line: "<word> - Mnemonic: ..." or "<word> - <text>"
IsStart(line) ==
    \/ word_mnemonic_match(line).ok
    \/ /\ ~IsStandaloneMnemonic(line)
       /\ ~IsStandaloneDefinition(line)
       /\ word_def_match(line).ok

StartsOf(ls) == {k \in 1..Len(ls) : IsStart(ls[k])}

\* the lines after the starting line k and before the next starting line
Span(ls, k) == {i \in (k + 1)..Len(ls) : \A j \in (k + 1)..i : ~IsStart(ls[j])}

\* what the starting line itself says
OwnWord(line) ==
    IF word_mnemonic_match(line).ok THEN word_mnemonic_match(line).word
    ELSE word_def_match(line).word
OwnMnemonic(line) ==
    IF word_mnemonic_match(line).ok
    THEN OrEmpty(MnemonicLineFields(word_mnemonic_match(line).text).mnemonic)
    ELSE <<>>
OwnDefinition(line) ==
    IF word_mnemonic_match(line).ok
    THEN OrEmpty(MnemonicLineFields(word_mnemonic_match(line).text).definition)
    ELSE DefLineText(word_def_match(line).text)
HasEmbeddedDefinition(line) ==
    /\ word_mnemonic_match(line).ok
    /\ def_match(Strip(word_mnemonic_match(line).text)) # 0

Max(S) == CHOOSE x \in S : \A y \in S : y <= x

\* what the entry started at line k carries once its span is read
SpanMnemonic(ls, k) ==
    LET st == {i \in Span(ls, k) : IsStandaloneMnemonic(ls[i])}
    IN IF st = {} THEN OwnMnemonic(ls[k]) ELSE StandaloneText(ls[Max(st)])
SpanDefinition(ls, k) ==
    LET st == {i \in Span(ls, k) : IsStandaloneDefinition(ls[i])}
    IN IF st = {} THEN OwnDefinition(ls[k]) ELSE StandaloneText(ls[Max(st)])
Carries(ls, k) == SpanMnemonic(ls, k) # <<>> \/ SpanDefinition(ls, k) # <<>>

\* the entry started at line k is over: a later line starts an entry, or the section has ended
Over(k) == pc # "lines" \/ \E j \in StartsOf(secLines) : j > k

(* ---------------- claims on the extractor ---------------- *)
\* C1: every entry retained in the corpus has a non-empty mnemonic or a
\* non-empty definition.
C1_RetainedEntryNonEmpty ==
    \A i \in 1..Len(all_groups) : \A j \in 1..Len(all_groups[i].entries) :
        \/ all_groups[i].entries[j].mnemonic # <<>>
        \/ all_groups[i].entries[j].definition # <<>>

\* C2 (as stated): the entries of group n in the corpus are those of the
\* first "Group n" section met in input order.
C2_FirstOccurrenceWins ==
    \A i \in 1..Len(all_groups) :
        /\ all_groups[i].number \in DOMAIN firstOcc
        /\ all_groups[i].entries = firstOcc[all_groups[i].number]

\* C2 (amended): the entries of group n in the corpus are those of the first
\* "Group n" section, in input order, that retained at least one entry; every
\* later section of that number contributes nothing; a number is in the corpus
\* once its response is recorded.
C2_FirstKeptWins ==
    /\ \A i \in 1..Len(all_groups) :
        /\ all_groups[i].number \in DOMAIN firstKept
        /\ all_groups[i].entries = firstKept[all_groups[i].number]
    /\ pc \notin {"split", "lines"} =>
        \A n \in DOMAIN firstKept : \E i \in 1..Len(all_groups) : all_groups[i].number = n

C2_Witness ==
    /\ pc = "done"
    /\ dupSeen
    /\ blocks = 2
    /\ \E i \in 1..Len(all_groups) : all_groups[i].entries = firstKept[all_groups[i].number]

\* C3: no two groups of the corpus have the same number.
C3_UniqueNumbers ==
    \A i, j \in 1..Len(all_groups) :
        i # j => all_groups[i].number # all_groups[j].number

C3_Witness == pc = "main_loop" /\ rejected > 0 /\ Len(all_groups) > 0

\* C6: when the run has ended, the output file holds the complete document or
\* has not been touched; the file is touched only once the document is rendered.
C6_AllOrNothing ==
    /\ pc \in {"done", "aborted"} =>
          \/ output = Untouched
          \/ output = [state |-> "written", content |-> html]
    /\ output # Untouched => pc \in {"opened", "done", "aborted"} /\ html # <<>>

\* C8: an entry whose starting line carries an embedded "Definition:" tail is
\* emitted with exactly the mnemonic and the definition of that line.
C8_EmbeddedDefinitionFinal ==
    \A j \in 1..Len(entries) :
        (origins[j] \in 1..Len(secLines) /\ HasEmbeddedDefinition(secLines[origins[j]])) =>
            /\ entries[j].mnemonic = OwnMnemonic(secLines[origins[j]])
            /\ entries[j].definition = OwnDefinition(secLines[origins[j]])

\* C9: every entry-starting line whose entry carries a mnemonic or a definition
\* when it is over yields exactly one entry; every entry comes from a starting
\* line, none twice, in the order of the starting lines.
C9_FlushProtocol ==
    /\ Len(origins) = Len(entries)
    /\ \A j \in 1..Len(origins) : origins[j] \in StartsOf(secLines)
    /\ \A i, j \in 1..Len(origins) : i < j => origins[i] < origins[j]
    /\ \A k \in StartsOf(secLines) :
          (Over(k) /\ Carries(secLines, k)) =>
              Cardinality({j \in 1..Len(origins) : origins[j] = k}) = 1

C9_Witness ==
    /\ pc = "split"
    /\ Len(entries) = 2
    /\ \A k \in StartsOf(secLines) : Carries(secLines, k)

\* C10: every field of an emitted entry, and of the entry in progress, comes
\* from its own starting line or from a standalone line of its span; the
\* group appended for a section holds the entries of that section.
FromOwnSpan(e, k) ==
    /\ k \in StartsOf(secLines)
    /\ e.word = OwnWord(secLines[k])
    /\ e.mnemonic \in {OwnMnemonic(secLines[k])} \cup
          {StandaloneText(secLines[i]) : i \in {x \in Span(secLines, k) : IsStandaloneMnemonic(secLines[x])}}
    /\ e.definition \in {OwnDefinition(secLines[k])} \cup
          {StandaloneText(secLines[i]) : i \in {x \in Span(secLines, k) : IsStandaloneDefinition(secLines[x])}}

C10_NoLeak ==
    /\ \A j \in 1..Len(entries) : j <= Len(origins) /\ FromOwnSpan(entries[j], origins[j])
    /\ (pc = "lines" /\ Truthy(current_word)) =>
          FromOwnSpan(Entry(current_word, current_mnemonic, current_definition), current_origin)
    /\ (pc = "lines" /\ StartsOf(secLines) = {}) => (current_word = None /\ entries = <<>>)
    /\ (pc = "split" /\ entries # <<>>) =>
          groups # <<>> /\ groups[Len(groups)] = [number |-> group_num, entries |-> entries]

C10_Witness ==
    /\ pc = "split"
    /\ Len(secLines) = 2
    /\ ~IsStart(secLines[1])
    /\ Len(entries) = 1
    /\ nSections = 2

(* ---------------- the renderer on its own ---------------- *)
\* the numbers of the corpora handed to the renderer: 0 and 35 lie in no episode
RenderNums == {0, 1, 2, 3, 4, 5, 7, 9, 10, 34, 35}

RenderEntries == {
    [word |-> <<"a", "b">>, mnemonic |-> <<"c">>, definition |-> <<>>],
    [word |-> <<"a", " ", "B">>, mnemonic |-> <<>>, definition |-> <<"d", SURROGATE>>] }

RECURSIVE Ascending(_)
Ascending(S) ==
    IF S = {} THEN <<>>
    ELSE LET m == CHOOSE x \in S : \A y \in S : x <= y
         IN <<m>> \o Ascending(S \ {m})

Reverse(q) == [i \in 1..Len(q) |-> q[Len(q) + 1 - i]]

Numbers(gs) == {gs[i].number : i \in 1..Len(gs)}

\* the state main is in when the loop over the responses has left the corpus gs
AfterExtraction(gs) ==
    /\ pc = "main_loop"
    /\ blocks = MaxBlocks
    /\ all_groups = gs
    /\ seen_groups = Numbers(gs)
    /\ groups = <<>>
    /\ group_num = 0
    /\ entries = <<>>
    /\ current_word = None
    /\ current_mnemonic = None
    /\ current_definition = None
    /\ html = <<>>
    /\ output = Untouched
    /\ secLines = <<>>
    /\ origins = <<>>
    /\ current_origin = 0
    /\ firstOcc = [n \in {} |-> <<>>]
    /\ firstKept = [n \in {} |-> <<>>]
    /\ dupSeen = FALSE
    /\ rejected = 0
    /\ nLines = MaxLines
    /\ nSections = MaxSections

\* a corpus of distinct numbers, in ascending or in descending order of arrival
InitRender ==
    \E S \in SUBSET RenderNums : \E e \in RenderEntries : \E down \in BOOLEAN :
        LET asc == [i \in 1..Cardinality(S) |-> [number |-> Ascending(S)[i], entries |-> <<e>>]]
        IN AfterExtraction(IF down THEN Reverse(asc) ELSE asc)

NextRender == GenerateHtml \/ OpenOutput \/ WriteHtml \/ WriteHtmlError

SpecRender == InitRender /\ [][NextRender]_vars

\* a corpus of one group with one entry whose mnemonic or definition is any short text
EscAlphabet == {"&", "<", ">", "x"}

EscTexts == UNION {[1..k -> EscAlphabet] : k \in 0..MaxEscLen}

InitEsc ==
    \E t \in EscTexts : \E inMnemonic \in BOOLEAN :
        AfterExtraction(<<[number |-> 1,
                           entries |-> <<[word |-> <<"a">>,
                                          mnemonic |-> IF inMnemonic THEN t ELSE <<>>,
                                          definition |-> IF inMnemonic THEN <<>> ELSE t]>>]>>)

NextEsc == GenerateHtml

SpecEsc == InitEsc /\ [][NextEsc]_vars

(* ---------------- claims on the renderer ---------------- *)
Rendered == pc \in {"rendered", "opened", "done", "aborted"} /\ html # <<>>

\* the ranges of the seven episodes, as the specification gives them
EpisodeRange(e) ==
    CASE e = 1 -> 1..4 [] e = 2 -> 5..9 [] e = 3 -> 10..14 [] e = 4 -> 15..19
      [] e = 5 -> 20..24 [] e = 6 -> 25..29 [] e = 7 -> 30..34

IsElem(x, kind, n) == Len(x) = 2 /\ x[1] = kind /\ x[2] = n
Positions(kind, n) == {i \in 1..Len(html) : IsElem(html[i], kind, n)}

\* the numbers the table-of-contents block of episode e links to, in order
LinksOf(e) ==
    LET p == CHOOSE i \in Positions("toc_episode", e) : TRUE
        q == CHOOSE i \in Positions("toc_episode_end", e) : TRUE
    IN [i \in 1..(q - p - 1) |-> html[p + i][2]]

\* C4: the table-of-contents block of each of the seven episodes is emitted
\* once and links to exactly the numbers of its range that are in the corpus,
\* in ascending order.
C4_TocLinks ==
    Rendered =>
        /\ \A e \in 1..7 :
            /\ Cardinality(Positions("toc_episode", e)) = 1
            /\ Cardinality(Positions("toc_episode_end", e)) = 1
            /\ \A i \in Positions("toc_episode", e) : \A j \in Positions("toc_episode_end", e) :
                  /\ i < j
                  /\ \A k \in (i + 1)..(j - 1) : Len(html[k]) = 2 /\ html[k][1] = "toc_link"
            /\ LinksOf(e) = Ascending(EpisodeRange(e) \cap Numbers(all_groups))
        /\ Cardinality({i \in 1..Len(html) : html[i][1] = "toc_link"})
              = Cardinality(Numbers(all_groups) \cap 1..34)

C4_Witness ==
    /\ Rendered
    /\ Numbers(all_groups) = {1, 2, 3, 7}
    /\ LinksOf(1) = <<1, 2, 3>>
    /\ LinksOf(2) = <<7>>
    /\ LinksOf(3) = <<>>

\* C5: a table with anchor groupN is in the body iff the table of contents
\* links to it, iff N is in the corpus and in 1..34; no table is emitted twice.
C5_BodyMatchesToc ==
    Rendered =>
        \A n \in Numbers(all_groups) \cup 0..36 :
            /\ (Positions("group", n) # {}) <=> (Positions("toc_link", n) # {})
            /\ (Positions("toc_link", n) # {}) <=> (n \in Numbers(all_groups) /\ n \in 1..34)
            /\ Cardinality(Positions("group", n)) <= 1
            /\ Cardinality(Positions("toc_link", n)) <= 1

C5_Witness ==
    /\ Rendered
    /\ {0, 4, 35} \subseteq Numbers(all_groups)
    /\ Positions("group", 4) # {}
    /\ Positions("group", 35) = {}
    /\ Positions("group", 0) = {}

\* each character escaped on its own, once
EscapeChar(c) == CASE c = "&" -> AMP [] c = "<" -> LT [] c = ">" -> GT [] OTHER -> <<c>>

RECURSIVE EscapeOnce(_)
EscapeOnce(t) == IF t = <<>> THEN <<>> ELSE EscapeChar(Head(t)) \o EscapeOnce(Tail(t))

TableRows == {i \in 1..Len(html) : html[i][1] = "tr"}

\* C7: the cells of a rendered row are the mnemonic and the definition with
\* every "&", "<" and ">" of the source replaced once by its entity.
C7_EscapedOnce ==
    Rendered =>
        /\ Cardinality(TableRows) = 1
        /\ \A i \in TableRows :
            /\ html[i][3] = EscapeOnce(all_groups[1].entries[1].mnemonic)
            /\ html[i][4] = EscapeOnce(all_groups[1].entries[1].definition)

C7_Witness ==
    /\ Rendered
    /\ all_groups[1].entries[1].definition = <<"x", "<", "x", "&", "x">>
    /\ \E i \in TableRows :
          html[i][4] = <<"x", "&", "l", "t", ";", "x", "&", "a", "m", "p", ";", "x">>

====
